---- MODULE Spec2Model ----
(***************************************************************************)
(* protomigrate: the deprecation fact extractor (facts/deprecated.go) and  *)
(* the deprecation usage analyzer (checkDeprecated).                       *)
(*                                                                         *)
(* Three state machines share the variables below:                         *)
(*   Spec / SpecImports  one run of checkDeprecated over a unit: the       *)
(*                 inspector's push/pop walk calling fn, then the          *)
(*                 preorder walk of the import specs calling fn2;          *)
(*   SpecFacts     one run of facts.deprecated over a unit: the            *)
(*                 ast.Inspect walk calling its callback;                  *)
(*   SpecMsg       extractDeprecatedMessage applied to a list of comment   *)
(*                 groups.                                                 *)
(* Text is modelled as a sequence of tokens (one-character strings, plus   *)
(* the word "Deprecated:" and a few words standing for runs of letters).   *)
(***************************************************************************)
EXTENDS Integers, Sequences, FiniteSets, TLC

VARIABLES
    pc,                 \* position of the run: "walk", "imports", "inspect", "extract", "done"
    events,             \* the inspector's event list of the unit (push/pop of every node)
    i,                  \* index of the next event
    goVersion,          \* the value of the analyzer's "go" flag
    StdlibDeprecations, \* knowledge.StdlibDeprecations: selector name -> entry
    deprs,              \* facts.DeprecatedResult: Objects and Packages
    passPkg,            \* pass.Pkg
    generated,          \* result of facts.Generated: file -> generator
    stack,              \* checkDeprecated: depth counter
    tfn,                \* checkDeprecated: tracked function object
    diags,              \* diagnostics reported so far, in order
    result,             \* outcome of the run: "running", "ok", "error", "panic"
    docs,               \* facts.deprecated: the shared docs slice
    names,              \* facts.deprecated: the shared names slice
    facts,              \* facts exported so far: [Objects: object -> message, Packages: messages]
    alt                 \* SpecMsg: result of extractDeprecatedMessage

vars == <<pc, events, i, goVersion, StdlibDeprecations, deprs, passPkg,
          generated, stack, tfn, diags, result, docs, names, facts, alt>>

-----------------------------------------------------------------------------
(* Bounds of the model. *)

MaxVersion == 1      \* target versions and table versions range over 0..MaxVersion
MaxDecls == 2        \* items (declarations, file starts) after the first file start
MaxImports == 2      \* import specs of the first file (SpecImports)
MaxLines == 3        \* total number of comment lines of a list of comment groups (SpecMsg)
MaxItems == 4        \* declarations, specs, fields and file starts after the first file (SpecFacts)

-----------------------------------------------------------------------------
(* Packages, objects, the knowledge table. *)

\* A string is the sequence of its characters; s + "_test" is s \o TestSuffix.
TestSuffix == <<"_", "t", "e", "s", "t">>

\* "github.com/golang/protobuf/proto", character by character.
ProtoPath ==
    <<"g", "i", "t", "h", "u", "b", ".", "c", "o", "m", "/",
      "g", "o", "l", "a", "n", "g", "/",
      "p", "r", "o", "t", "o", "b", "u", "f", "/", "p", "r", "o", "t", "o">>

PkgA == [path |-> <<"a">>]
PkgATest == [path |-> <<"a">> \o TestSuffix]
PkgDep == [path |-> <<"d", "e", "p">>]
PkgProto == [path |-> ProtoPath]
NoPkg == [path |-> <<>>]            \* obj.Pkg() == nil, or an unresolved import

NoObj == [name |-> "nil", pkg |-> NoPkg]    \* a nil types.Object

Obj(n, p) == [name |-> n, pkg |-> p]

\* knowledge.DeprecatedNeverUse and knowledge.DeprecatedUseNoLonger: the two
\* negative sentinels of AlternativeAvailableSince.
DeprecatedNeverUse == -1
DeprecatedUseNoLonger == -2

NoEntry == [DeprecatedSince |-> -9, AlternativeAvailableSince |-> -9]

Entries == [DeprecatedSince : 0..MaxVersion,
            AlternativeAvailableSince :
                {DeprecatedNeverUse, DeprecatedUseNoLonger} \cup 0..MaxVersion]

-----------------------------------------------------------------------------
(* The syntax of a unit, as the inspector presents it: one push and one pop *)
(* event per node, in depth-first order, file after file.                  *)

\* A node.  id = <<position of its item in the layout, ordinal in the item>>;
\* obj is the object of a FuncDecl's name or of a SelectorExpr's Sel;
\* encl is the function declaration that lexically contains a SelectorExpr;
\* path and imp are an ImportSpec's path literal and imported package.
Node(t, id, o, e, f) ==
    [type |-> t, id |-> id, obj |-> o, encl |-> e, file |-> f,
     path |-> <<>>, imp |-> NoPkg]

ImportNode(id, f, spec) ==
    [type |-> "ImportSpec", id |-> id, obj |-> NoObj, encl |-> NoObj, file |-> f,
     path |-> spec.path, imp |-> spec.imp]

Ev(p, n) == [push |-> p, node |-> n]

\* Push and pop of a chain of nested nodes, outermost first.
RECURSIVE Nest(_)
Nest(ns) ==
    IF ns = <<>> THEN <<>>
    ELSE <<Ev(TRUE, Head(ns))>> \o Nest(Tail(ns)) \o <<Ev(FALSE, Head(ns))>>

\* The events of sibling leaves.
RECURSIVE Leaves(_)
Leaves(ns) ==
    IF ns = <<>> THEN <<>>
    ELSE <<Ev(TRUE, Head(ns)), Ev(FALSE, Head(ns))>> \o Leaves(Tail(ns))

\* The function objects the unit declares (in the package under analysis).
FnDep(pkg) == Obj("OldFunc", pkg)
FnPlain(pkg) == Obj("PlainFunc", pkg)

FileNode(k, f) == Node("File", <<k, 0>>, NoObj, NoObj, f)

\* import ( ... ) of a file: a GenDecl holding the file's import specs.
ImportDecl(k, f, specs) ==
    IF specs = <<>> THEN <<>>
    ELSE <<Ev(TRUE, Node("GenDecl", <<k, 1>>, NoObj, NoObj, f))>>
         \o Leaves([j \in 1..Len(specs) |-> ImportNode(<<k, 1 + j>>, f, specs[j])])
         \o <<Ev(FALSE, Node("GenDecl", <<k, 1>>, NoObj, NoObj, f))>>

\* func F() { target.Sel }: FuncDecl > BlockStmt > ExprStmt > SelectorExpr.
FuncDeclEvents(k, f, fnobj, target) ==
    Nest(<<Node("FuncDecl", <<k, 0>>, fnobj, NoObj, f),
           Node("BlockStmt", <<k, 1>>, NoObj, NoObj, f),
           Node("ExprStmt", <<k, 2>>, NoObj, NoObj, f),
           Node("SelectorExpr", <<k, 3>>, target, fnobj, f)>>)

\* var _ = target.Sel at package level: GenDecl > ValueSpec > SelectorExpr.
VarDeclEvents(k, f, target) ==
    Nest(<<Node("GenDecl", <<k, 0>>, NoObj, NoObj, f),
           Node("ValueSpec", <<k, 1>>, NoObj, NoObj, f),
           Node("SelectorExpr", <<k, 2>>, target, NoObj, f)>>)

\* The events of layout[k..], where the file that began at position cur
\* (file number f) is open.  imps[f] are the import specs of file f.
RECURSIVE Build(_, _, _, _, _, _, _)
Build(layout, k, cur, f, pkg, target, imps) ==
    IF k > Len(layout) THEN <<Ev(FALSE, FileNode(cur, f))>>
    ELSE CASE layout[k] = "file" ->
                  (IF cur = 0 THEN <<>> ELSE <<Ev(FALSE, FileNode(cur, f))>>)
                  \o <<Ev(TRUE, FileNode(k, f + 1))>>
                  \o ImportDecl(k, f + 1, imps[f + 1])
                  \o Build(layout, k + 1, k, f + 1, pkg, target, imps)
           [] layout[k] = "funcDep" ->
                  FuncDeclEvents(k, f, FnDep(pkg), target)
                  \o Build(layout, k + 1, cur, f, pkg, target, imps)
           [] layout[k] = "funcPlain" ->
                  FuncDeclEvents(k, f, FnPlain(pkg), target)
                  \o Build(layout, k + 1, cur, f, pkg, target, imps)
           [] OTHER ->
                  VarDeclEvents(k, f, target)
                  \o Build(layout, k + 1, cur, f, pkg, target, imps)

UnitEvents(layout, pkg, target, imps) == Build(layout, 1, 0, 0, pkg, target, imps)

Items == {"file", "funcDep", "funcPlain", "var"}

\* A unit is a first file followed by at most MaxDecls further items.
Layouts ==
    UNION {{<<"file">> \o r : r \in [1..n -> Items]} : n \in 0..MaxDecls}

NumFiles(layout) == Cardinality({k \in 1..Len(layout) : layout[k] = "file"})

-----------------------------------------------------------------------------
(* Helpers of checkDeprecated. *)

\* fmt's %d for the small numbers of the model.
Itoa(n) ==
    IF n < 0 THEN "-" ELSE <<"0", "1", "2", "3", "4", "5", "6", "7", "8", "9">>[n + 1]

\* A faulty IsGoVersion: a strict comparison.
IsGoVersionStrict(minor) == goVersion > minor

\* IsGoVersion(pass, minor): the "go" flag is at least minor.
IsGoVersion(minor) == goVersion >= minor

\* SelectorName of a qualified identifier: "<imported path>.<name>".
SelectorName(node) == node.obj.pkg.path \o <<".", node.obj.name>>

\* report.Render of a selector expression.
Render(node) == node.obj.name

\* Generator(pass, pos): the classification of the file of pos, and whether
\* the file has one.
Generator(node) ==
    IF node.file \in DOMAIN generated
    THEN [gen |-> generated[node.file], ok |-> TRUE]
    ELSE [gen |-> "Unknown", ok |-> FALSE]

ProtocGenGo == "ProtocGenGo"

HasFact(o) == o \in DOMAIN deprs.Objects

\* A faulty variant: the test-variant comparison appends nothing.
OwnPackageNoTest(o) == passPkg = o.pkg

\* pass.Pkg == obj.Pkg() || obj.Pkg().Path()+"_test" == pass.Pkg.Path()
OwnPackage(o) == passPkg = o.pkg \/ o.pkg.path \o TestSuffix = passPkg.path

\* A faulty variant: the message shape is chosen with the branches for equal versions dropped.
SelectorMessageNoEqual(node, ok, std, msg) ==
    IF ok
    THEN IF std.AlternativeAvailableSince = DeprecatedNeverUse
         THEN <<Render(node), " has been deprecated since Go 1.", Itoa(std.DeprecatedSince),
                " because it shouldn't be used: ", msg>>
         ELSE <<Render(node), " has been deprecated since Go 1.", Itoa(std.DeprecatedSince),
                " and an alternative has been available since Go 1.",
                Itoa(std.AlternativeAvailableSince), ": ", msg>>
    ELSE <<Render(node), " is deprecated: ", msg>>

\* The text of the diagnostic of a member access (the four Sprintf calls).
SelectorMessage(node, ok, std, msg) ==
    IF ok
    THEN IF std.AlternativeAvailableSince = DeprecatedNeverUse
         THEN <<Render(node), " has been deprecated since Go 1.", Itoa(std.DeprecatedSince),
                " because it shouldn't be used: ", msg>>
         ELSE IF \/ std.AlternativeAvailableSince = std.DeprecatedSince
                 \/ std.AlternativeAvailableSince = DeprecatedUseNoLonger
         THEN <<Render(node), " has been deprecated since Go 1.", Itoa(std.DeprecatedSince),
                ": ", msg>>
         ELSE <<Render(node), " has been deprecated since Go 1.", Itoa(std.DeprecatedSince),
                " and an alternative has been available since Go 1.",
                Itoa(std.AlternativeAvailableSince), ": ", msg>>
    ELSE <<Render(node), " is deprecated: ", msg>>

\* The switch on std.AlternativeAvailableSince: "go" (fall out of the
\* switch), "return" (return true) or "panic".
VersionSwitch(std) ==
    CASE std.AlternativeAvailableSince = DeprecatedNeverUse -> "go"
      [] std.AlternativeAvailableSince = DeprecatedUseNoLonger ->
             IF ~IsGoVersion(std.DeprecatedSince) THEN "return" ELSE "go"
      [] OTHER ->
             IF std.AlternativeAvailableSince < 0 THEN "panic"
             ELSE IF ~IsGoVersion(std.AlternativeAvailableSince) THEN "return" ELSE "go"

\* A faulty variant: the exemption of deprecated functions is dropped.
SelfUseNever(t) == FALSE

\* tfn != nil and tfn has a fact: deprecated functions may use deprecated symbols.
SelfUse(t) == t # NoObj /\ HasFact(t)

\* The body of fn for a SelectorExpr, with t the tracked function: the
\* diagnostics it reports and whether it panics.
checkSelector(node, t) ==
    LET obj == node.obj
        name == SelectorName(node)
        ok == name \in DOMAIN StdlibDeprecations
        std == IF ok THEN StdlibDeprecations[name] ELSE NoEntry
        sw == IF ok THEN VersionSwitch(std) ELSE "go"
        quiet == [report |-> <<>>, panic |-> FALSE]
    IN  IF obj.pkg = NoPkg THEN quiet
        ELSE IF OwnPackage(obj) THEN quiet
        ELSE IF ~HasFact(obj) THEN quiet
        ELSE IF sw = "panic" THEN [report |-> <<>>, panic |-> TRUE]
        ELSE IF sw = "return" THEN quiet
        ELSE IF ok /\ ~IsGoVersion(std.AlternativeAvailableSince) THEN quiet
        ELSE IF SelfUse(t) THEN quiet
        ELSE [report |-> <<[node |-> node.id,
                            msg |-> SelectorMessage(node, ok, std, deprs.Objects[obj])]>>,
              panic |-> FALSE]

\* The tracked function after fn has entered node at the given depth.
Tracked(node, depth, t) ==
    IF node.type = "FuncDecl" THEN node.obj
    ELSE IF depth = 1 THEN NoObj
    ELSE t

-----------------------------------------------------------------------------
(* Import specs. *)

\* The characters that need a name: double quote, back quote, backslash, newline.
DQ == "DQUOTE"
BQ == "BQUOTE"
BS == "BSLASH"
NL == "LF"

\* strconv.Unquote succeeds on a literal (the literals of the model hold no
\* numeric escapes and no single-quoted literal): the same quote at both
\* ends; raw: no back quote inside; interpreted: no newline, no bare double
\* quote, and every backslash starts a single-character escape.
RECURSIVE EscapesOk(_)
EscapesOk(body) ==
    IF body = <<>> THEN TRUE
    ELSE IF Head(body) = BS
         THEN /\ Len(body) >= 2
              /\ body[2] \in {"a", "b", "f", "n", "r", "t", "v", BS, DQ}
              /\ EscapesOk(Tail(Tail(body)))
    ELSE IF Head(body) \in {DQ, NL} THEN FALSE
    ELSE EscapesOk(Tail(body))

UnquoteOk(p) ==
    /\ Len(p) >= 2
    /\ p[1] = p[Len(p)]
    /\ p[1] \in {DQ, BQ}
    /\ LET body == SubSeq(p, 2, Len(p) - 1)
       IN  IF p[1] = BQ THEN \A k \in 1..Len(body) : body[k] # BQ
           ELSE EscapesOk(body)

Quote(q, str) == <<q>> \o str \o <<q>>

\* The package the type checker records for an import spec: the package of
\* the unquoted path (the literals of the model that unquote hold no
\* escapes), and none for a literal that does not unquote.
Imported(p) ==
    IF ~UnquoteOk(p) THEN NoPkg ELSE [path |-> SubSeq(p, 2, Len(p) - 1)]

ImportSpecOf(p) == [path |-> p, imp |-> Imported(p)]

\* The path literals of the model: well formed ones, an unterminated one
\* and one with an unknown escape.
Literals ==
    {Quote(DQ, ProtoPath), Quote(BQ, ProtoPath), Quote(DQ, PkgDep.path),
     <<DQ>> \o ProtoPath, Quote(DQ, PkgDep.path \o <<BS, "q">>)}

\* A faulty variant: the generated-file exemption ignores which generator wrote the file.
importDiagAnyGenerator(node) ==
    LET pth == SubSeq(node.path, 2, Len(node.path) - 1)
        g == Generator(node)
    IN  IF node.imp = NoPkg \/ Len(node.path) < 2 THEN [report |-> <<>>, panic |-> TRUE]
        ELSE IF node.imp \notin DOMAIN deprs.Packages THEN [report |-> <<>>, panic |-> FALSE]
        ELSE IF pth = ProtoPath /\ g.ok THEN [report |-> <<>>, panic |-> FALSE]
        ELSE [report |-> <<[node |-> node.id,
                            msg |-> <<"package ", pth, " is deprecated: ",
                                      deprs.Packages[node.imp]>>]>>,
              panic |-> FALSE]

\* The body of fn2 for an import spec: the type assertion on the recorded
\* package name panics when there is none, p[1:len(p)-1] panics on a
\* literal shorter than two bytes.
importDiag(node) ==
    LET pth == SubSeq(node.path, 2, Len(node.path) - 1)
        g == Generator(node)
    IN  IF node.imp = NoPkg \/ Len(node.path) < 2 THEN [report |-> <<>>, panic |-> TRUE]
        ELSE IF node.imp \notin DOMAIN deprs.Packages THEN [report |-> <<>>, panic |-> FALSE]
        ELSE IF pth = ProtoPath /\ g.ok /\ g.gen = ProtocGenGo
             THEN [report |-> <<>>, panic |-> FALSE]
        ELSE [report |-> <<[node |-> node.id,
                            msg |-> <<"package ", pth, " is deprecated: ",
                                      deprs.Packages[node.imp]>>]>>,
              panic |-> FALSE]

-----------------------------------------------------------------------------
(* checkDeprecated as a state machine. *)

IsImportPush(k) == events[k].push /\ events[k].node.type = "ImportSpec"

\* Index of the first import spec at or after k, or 0.
NextImport(k) ==
    IF \E m \in k..Len(events) : IsImportPush(m)
    THEN CHOOSE m \in k..Len(events) :
             IsImportPush(m) /\ \A n \in k..(m - 1) : ~IsImportPush(n)
    ELSE 0

factVars == <<docs, names, facts, alt>>
inputVars == <<events, goVersion, StdlibDeprecations, deprs, passPkg, generated>>

\* fn(node, true): one push event of Inspector.Nodes.
Push ==
    /\ pc = "walk"
    /\ i <= Len(events)
    /\ events[i].push
    /\ LET node == events[i].node
           t == Tracked(node, stack + 1, tfn)
           r == IF node.type = "SelectorExpr" THEN checkSelector(node, t)
                ELSE [report |-> <<>>, panic |-> FALSE]
       IN  /\ stack' = stack + 1
           /\ tfn' = t
           /\ diags' = diags \o r.report
           /\ pc' = IF r.panic THEN "done" ELSE "walk"
           /\ result' = IF r.panic THEN "panic" ELSE result
    /\ i' = i + 1
    /\ UNCHANGED <<inputVars, factVars>>

\* fn(node, false): one pop event; after the last one the walk of the
\* import specs begins.
Pop ==
    /\ pc = "walk"
    /\ i <= Len(events)
    /\ ~events[i].push
    /\ stack' = stack - 1
    /\ i' = IF i = Len(events) THEN 1 ELSE i + 1
    /\ pc' = IF i = Len(events) THEN "imports" ELSE "walk"
    /\ UNCHANGED <<inputVars, factVars, tfn, diags, result>>

\* fn2(node): the next import spec of Preorder.
Import ==
    /\ pc = "imports"
    /\ NextImport(i) # 0
    /\ LET k == NextImport(i)
           r == importDiag(events[k].node)
       IN  /\ diags' = diags \o r.report
           /\ pc' = IF r.panic THEN "done" ELSE "imports"
           /\ result' = IF r.panic THEN "panic" ELSE result
           /\ i' = k + 1
    /\ UNCHANGED <<inputVars, factVars, stack, tfn>>

\* return nil, nil
Return ==
    /\ pc = "imports"
    /\ NextImport(i) = 0
    /\ pc' = "done"
    /\ result' = "ok"
    /\ UNCHANGED <<inputVars, factVars, i, stack, tfn, diags>>

\* The symbols a unit of package pkg can refer to.
Targets(pkg) ==
    IF pkg = PkgA
    THEN {Obj("Old", PkgA), Obj("Old", PkgDep), Obj("New", PkgDep), Obj("Error", NoPkg)}
    ELSE {Obj("Old", PkgA), Obj("Old", PkgATest), Obj("Old", PkgDep), Obj("New", PkgDep)}

\* The object facts in force: every symbol named Old, and OldFunc.
ObjectFacts(pkg) ==
    [o \in {Obj("Old", PkgA), Obj("Old", PkgATest), Obj("Old", PkgDep), FnDep(pkg)}
        |-> "use the replacement."]

PackageFacts(pkgs) == [q \in pkgs |-> "use google.golang.org/protobuf."]

\* A table with the entry e under every selector name of the model, or empty.
Table(e) ==
    IF e = NoEntry THEN <<>>
    ELSE [n \in {o.pkg.path \o <<".", o.name>> : o \in Targets(PkgA) \cup Targets(PkgATest)}
             |-> e]

NoFactState ==
    /\ docs = <<>>
    /\ names = <<>>
    /\ facts = <<>>
    /\ alt = <<>>

StartWalk ==
    /\ pc = "walk"
    /\ i = 1
    /\ stack = 0
    /\ tfn = NoObj
    /\ diags = <<>>
    /\ result = "running"

\* Units that vary the member accesses, the table and the target version.
Init ==
    /\ passPkg \in {PkgA, PkgATest}
    /\ goVersion \in 0..MaxVersion
    /\ \E e \in Entries \cup {NoEntry} : StdlibDeprecations = Table(e)
    /\ deprs = [Objects |-> ObjectFacts(passPkg), Packages |-> PackageFacts({PkgDep})]
    /\ generated = <<>>
    /\ \E layout \in Layouts, target \in Targets(passPkg) :
           events = UnitEvents(layout, passPkg, target,
                        [f \in 1..NumFiles(layout) |->
                            IF f = 1 THEN <<ImportSpecOf(Quote(DQ, PkgDep.path))>> ELSE <<>>])
    /\ StartWalk
    /\ NoFactState

ImportLayouts == {<<"file", "var">>, <<"file", "funcPlain", "file">>}

\* Units that vary the import specs of the first file, its classification
\* and the package facts; a second file imports the legacy package by hand.
InitImports ==
    /\ passPkg = PkgA
    /\ goVersion = 0
    /\ StdlibDeprecations = Table(NoEntry)
    /\ \E pkgs \in SUBSET {PkgProto, PkgDep} :
           deprs = [Objects |-> ObjectFacts(passPkg), Packages |-> PackageFacts(pkgs)]
    /\ generated \in {<<>>, <<ProtocGenGo>>, <<"Stringer">>}
    /\ \E layout \in ImportLayouts, n \in 0..MaxImports :
       \E lits \in [1..n -> Literals] :
           events = UnitEvents(layout, passPkg, Obj("Old", PkgDep),
                        [f \in 1..NumFiles(layout) |->
                            IF f = 1 THEN [j \in 1..n |-> ImportSpecOf(lits[j])]
                            ELSE <<ImportSpecOf(Quote(DQ, ProtoPath))>>])
    /\ StartWalk
    /\ NoFactState

Next == Push \/ Pop \/ Import \/ Return

Spec == Init /\ [][Next]_vars

SpecImports == InitImports /\ [][Next]_vars

-----------------------------------------------------------------------------
(* Properties of checkDeprecated. *)

\* The events fn has been called for.
Walked == IF pc = "walk" THEN i - 1 ELSE Len(events)

\* The member accesses fn has visited.
VisitedSelectors ==
    {events[k].node : k \in {m \in 1..Walked :
                                 events[m].push /\ events[m].node.type = "SelectorExpr"}}

\* The import specs fn2 has visited.
VisitedImports ==
    IF pc \in {"imports", "done"}
    THEN {events[k].node : k \in {m \in 1..(i - 1) : IsImportPush(m)}}
    ELSE {}

\* Number of diagnostics anchored at a node.
DiagCount(id) == Cardinality({k \in 1..Len(diags) : diags[k].node = id})

\* A deprecated symbol of another package.
ExternalDeprecated(o) ==
    /\ o.pkg # NoPkg
    /\ o.pkg # passPkg
    /\ o.pkg.path \o TestSuffix # passPkg.path
    /\ o \in DOMAIN deprs.Objects

\* The table entry of a member access, if any.
HasEntry(node) == (node.obj.pkg.path \o <<".", node.obj.name>>) \in DOMAIN StdlibDeprecations
EntryOf(node) == StdlibDeprecations[node.obj.pkg.path \o <<".", node.obj.name>>]

\* The three-way policy as the specification states it.
PolicyEligible(node) ==
    IF ~HasEntry(node) THEN TRUE
    ELSE LET e == EntryOf(node)
         IN  CASE e.AlternativeAvailableSince = DeprecatedNeverUse -> TRUE
               [] e.AlternativeAvailableSince = DeprecatedUseNoLonger ->
                      goVersion >= e.DeprecatedSince
               [] OTHER -> goVersion >= e.AlternativeAvailableSince

\* C1 (no self-flagging): a member access whose symbol is declared in the
\* package under analysis, or in the package of which the package under
\* analysis is the test variant, never has a diagnostic, whatever the facts,
\* the table entry and the target version.
NoSelfFlagging ==
    \A n \in VisitedSelectors :
        (n.obj.pkg = passPkg \/ n.obj.pkg.path \o TestSuffix = passPkg.path)
            => DiagCount(n.id) = 0

\* Reached: the test variant of a has finished the walk over an access to
\* a's deprecated symbol, outside any deprecated function, with a NeverUse entry.
NoSelfFlaggingWitness ==
    /\ pc = "done"
    /\ passPkg = PkgATest
    /\ \E n \in VisitedSelectors :
           /\ n.obj = Obj("Old", PkgA)
           /\ n.encl = FnPlain(passPkg)
           /\ n.obj \in DOMAIN deprs.Objects
           /\ HasEntry(n)
           /\ EntryOf(n).AlternativeAvailableSince = DeprecatedNeverUse
           /\ DiagCount(n.id) = 0

\* C2 (self-use exemption): an access to a deprecated external symbol in the
\* body of a function declaration that has a fact has no diagnostic; the
\* same access in the body of a function declaration without a fact, when
\* the policy makes it eligible, has one; in any order of the declarations.
SelfUseExemption ==
    \A n \in VisitedSelectors :
        (ExternalDeprecated(n.obj) /\ n.encl # NoObj) =>
            IF n.encl \in DOMAIN deprs.Objects THEN DiagCount(n.id) = 0
            ELSE (PolicyEligible(n) => DiagCount(n.id) = 1)

\* Reached: a deprecated function first, a plain function after it, both
\* with the same access; only the second is reported.
SelfUseExemptionWitness ==
    /\ pc = "done"
    /\ \E n1, n2 \in VisitedSelectors :
           /\ n1.id[1] < n2.id[1]
           /\ n1.obj = n2.obj
           /\ ExternalDeprecated(n1.obj)
           /\ n1.encl = FnDep(passPkg) /\ n1.encl \in DOMAIN deprs.Objects
           /\ n2.encl = FnPlain(passPkg) /\ n2.encl \notin DOMAIN deprs.Objects
           /\ DiagCount(n1.id) = 0
           /\ DiagCount(n2.id) = 1

\* C3 (three-way version gating): for an access to a deprecated external
\* symbol, an access the policy makes ineligible is never reported, wherever
\* it is, and an eligible one in the body of a function without a fact is
\* reported once; so the second IsGoVersion test changes nothing for targets >= 0.
VersionGating ==
    \A n \in VisitedSelectors :
        ExternalDeprecated(n.obj) =>
            /\ ~PolicyEligible(n) => DiagCount(n.id) = 0
            /\ (PolicyEligible(n) /\ n.encl # NoObj /\ n.encl \notin DOMAIN deprs.Objects)
                   => DiagCount(n.id) = 1

\* Reached: deprecated since 1, alternative since 0, target 0: reported,
\* although the target is below the version of the deprecation.
VersionGatingWitness ==
    /\ pc = "done"
    /\ goVersion = 0
    /\ \E n \in VisitedSelectors :
           /\ ExternalDeprecated(n.obj)
           /\ HasEntry(n)
           /\ EntryOf(n) = [DeprecatedSince |-> 1, AlternativeAvailableSince |-> 0]
           /\ n.encl = FnPlain(passPkg)
           /\ DiagCount(n.id) = 1

\* The message the specification's four shapes give for an access.
ShapeExpected(node, msg) ==
    IF ~HasEntry(node) THEN <<node.obj.name, " is deprecated: ", msg>>
    ELSE LET D == EntryOf(node).DeprecatedSince
             A == EntryOf(node).AlternativeAvailableSince
         IN  CASE A = DeprecatedNeverUse ->
                      <<node.obj.name, " has been deprecated since Go 1.", Itoa(D),
                        " because it shouldn't be used: ", msg>>
               [] A = DeprecatedUseNoLonger \/ A = D ->
                      <<node.obj.name, " has been deprecated since Go 1.", Itoa(D), ": ", msg>>
               [] OTHER ->
                      <<node.obj.name, " has been deprecated since Go 1.", Itoa(D),
                        " and an alternative has been available since Go 1.", Itoa(A),
                        ": ", msg>>

\* C5 (message shape): every diagnostic of a member access has the shape the
\* table entry selects: none -> "is deprecated"; NeverUse -> "because it
\* shouldn't be used"; UseNoLonger or A = D -> "deprecated since D"; any other
\* A (also A < D) -> "... and an alternative has been available since A".
MessageShape ==
    \A n \in VisitedSelectors :
        \A k \in 1..Len(diags) :
            diags[k].node = n.id =>
                diags[k].msg = ShapeExpected(n, deprs.Objects[n.obj])

\* Reached: a diagnostic for deprecated since 1 with an alternative since 0.
MessageShapeWitness ==
    \E n \in VisitedSelectors :
        /\ HasEntry(n)
        /\ EntryOf(n) = [DeprecatedSince |-> 1, AlternativeAvailableSince |-> 0]
        /\ \E k \in 1..Len(diags) :
               /\ diags[k].node = n.id
               /\ diags[k].msg[4] = " and an alternative has been available since Go 1."
               /\ diags[k].msg[3] = "1"
               /\ diags[k].msg[5] = "0"

\* C9 (enclosing function): right after fn has entered a member access, the
\* tracked function is the function declaration that lexically contains the
\* access, none at package level; and an eligible access to a deprecated
\* external symbol at package level is reported.
EnclosingFunctionTracked ==
    /\ (pc = "walk" /\ i > 1 /\ events[i - 1].push
            /\ events[i - 1].node.type = "SelectorExpr")
           => tfn = events[i - 1].node.encl
    /\ \A n \in VisitedSelectors :
           (ExternalDeprecated(n.obj) /\ PolicyEligible(n) /\ n.encl = NoObj)
               => DiagCount(n.id) = 1

MalformedImport ==
    \E k \in 1..Len(events) : IsImportPush(k) /\ ~UnquoteOk(events[k].node.path)

\* C8 (malformed import path is fatal): a run over a unit with a malformed
\* import path literal ends in an error result, with no diagnostic delivered.
MalformedImportIsError ==
    (pc = "done" /\ MalformedImport) => (result = "error" /\ diags = <<>>)

-----------------------------------------------------------------------------
(* Comment text and extractDeprecatedMessage (facts/deprecated.go). *)

SP == " "

\* "Deprecated: " is the word "Deprecated:" and a space.
Marker == <<"Deprecated:", SP>>

\* A comment group: nil, or its Text().
NilDoc == [nil |-> TRUE, text |-> <<>>]
Doc(t) == [nil |-> FALSE, text |-> t]

\* CommentGroup.Text() of a group whose comment lines are ls: every line
\* followed by a newline.  (Text() strips trailing blanks of lines, drops
\* leading and trailing empty lines and folds runs of empty lines.)
RECURSIVE Join(_)
Join(ls) == IF ls = <<>> THEN <<>> ELSE Head(ls) \o <<NL>> \o Join(Tail(ls))

\* strings.HasPrefix(s, prefix)
HasPrefix(s, prefix) ==
    Len(s) >= Len(prefix) /\ SubSeq(s, 1, Len(prefix)) = prefix

\* Index of the first "\n\n" in s at or after k, or 0.
RECURSIVE IndexBlank(_, _)
IndexBlank(s, k) ==
    IF k + 1 > Len(s) THEN 0
    ELSE IF s[k] = NL /\ s[k + 1] = NL THEN k
    ELSE IndexBlank(s, k + 1)

\* strings.Split(s, "\n\n")
RECURSIVE Split(_)
Split(s) ==
    LET k == IndexBlank(s, 1)
    IN  IF k = 0 THEN <<s>>
        ELSE <<SubSeq(s, 1, k - 1)>> \o Split(SubSeq(s, k + 2, Len(s)))

\* strings.Replace(s, "\n", " ", -1)
ReplaceNewlines(s) == [k \in 1..Len(s) |-> IF s[k] = NL THEN SP ELSE s[k]]

\* alt := part[len("Deprecated: "):] with its newlines replaced.
messageOfPart(part) == ReplaceNewlines(SubSeq(part, Len(Marker) + 1, Len(part)))

\* A faulty variant: the marker is matched without its space.
partHasMarkerNoSpace(part) == HasPrefix(part, <<"Deprecated:">>)

\* strings.HasPrefix(part, "Deprecated: ")
partHasMarker(part) == HasPrefix(part, Marker)

\* The inner loop over the parts of one comment group: the message of the
\* first part with the marker, found = FALSE when no part has it.
RECURSIVE firstInParts(_)
firstInParts(parts) ==
    IF parts = <<>> THEN [found |-> FALSE, alt |-> <<>>]
    ELSE IF ~partHasMarker(Head(parts)) THEN firstInParts(Tail(parts))
    ELSE [found |-> TRUE, alt |-> messageOfPart(Head(parts))]

\* extractDeprecatedMessage(docs): "" (the empty sequence) when no comment
\* group has a part with the marker.
RECURSIVE extractDeprecatedMessage(_)
extractDeprecatedMessage(ds) ==
    IF ds = <<>> THEN <<>>
    ELSE IF Head(ds).nil THEN extractDeprecatedMessage(Tail(ds))
    ELSE LET r == firstInParts(Split(Head(ds).text))
         IN  IF r.found THEN r.alt ELSE extractDeprecatedMessage(Tail(ds))

\* pass.ExportObjectFact for each name, in a map of facts.
RECURSIVE exportAll(_, _, _)
exportAll(m, ns, msg) ==
    IF ns = <<>> THEN m
    ELSE exportAll([o \in DOMAIN m \cup {Head(ns)} |->
                        IF o = Head(ns) THEN msg ELSE m[o]], Tail(ns), msg)

\* doDocs(names, docs): the object facts after it.
doDocs(m, ns, ds) ==
    LET a == extractDeprecatedMessage(ds)
    IN  IF a = <<>> THEN m ELSE exportAll(m, ns, a)

-----------------------------------------------------------------------------
(* extractDeprecatedMessage and doDocs applied to a list of comment groups. *)

\* The comment lines of the model: a word; the marker and a word; the
\* marker without its space; the marker in lower case; the marker in the
\* middle of a line; and the empty line.
WordLine == <<"x">>
Lines ==
    {WordLine, <<"Deprecated:", SP, "y">>, <<"Deprecated:", "y">>,
     <<"deprecated:", SP, "y">>, <<"x", SP, "Deprecated:", SP, "z">>, <<>>}

\* Line lists Text() can return, of exactly n lines: no empty line first or
\* last, no two empty lines in a row.
LineLists(n) ==
    {ls \in [1..n -> Lines] :
        /\ n > 0 => (ls[1] # <<>> /\ ls[n] # <<>>)
        /\ \A k \in 1..(n - 1) : ~(ls[k] = <<>> /\ ls[k + 1] = <<>>)}

\* Comment groups of weight n: nil or empty (weight 1), or n lines.
DocsOfWeight(n) ==
    {Doc(Join(ls)) : ls \in LineLists(n)}
        \cup (IF n = 1 THEN {NilDoc, Doc(<<>>)} ELSE {})

\* Lists of comment groups of total weight at most n.
RECURSIVE DocLists(_)
DocLists(n) ==
    IF n = 0 THEN {<<>>}
    ELSE {<<>>} \cup UNION {{<<d>> \o rest : d \in DocsOfWeight(k), rest \in DocLists(n - k)}
                               : k \in 1..n}

TheName == Obj("X", PkgA)

NoWalkState ==
    /\ events = <<>>
    /\ i = 1
    /\ goVersion = 0
    /\ StdlibDeprecations = <<>>
    /\ deprs = [Objects |-> <<>>, Packages |-> <<>>]
    /\ passPkg = PkgA
    /\ generated = <<>>
    /\ stack = 0
    /\ tfn = NoObj
    /\ diags = <<>>
    /\ result = "running"

InitMsg ==
    /\ pc = "extract"
    /\ docs \in DocLists(MaxLines)
    /\ names = <<TheName>>
    /\ facts = [Objects |-> <<>>, Packages |-> <<>>]
    /\ alt = <<>>
    /\ NoWalkState

\* doDocs(names, docs) on the list of comment groups.
DoDocs ==
    /\ pc = "extract"
    /\ alt' = extractDeprecatedMessage(docs)
    /\ facts' = [facts EXCEPT !.Objects = doDocs(facts.Objects, names, docs)]
    /\ pc' = "done"
    /\ UNCHANGED <<inputVars, i, stack, tfn, diags, result, docs, names>>

NextMsg == DoDocs

SpecMsg == InitMsg /\ [][NextMsg]_vars

\* The parts of a text, stated by position: a part runs from a to b when it
\* starts at the beginning or after a blank line, ends at the end or before
\* a blank line, and holds no blank line.
BlankAt(t, k) == k >= 1 /\ k + 1 <= Len(t) /\ t[k] = NL /\ t[k + 1] = NL
IsPart(t, a, b) ==
    /\ a = 1 \/ BlankAt(t, a - 2)
    /\ b = Len(t) \/ BlankAt(t, b + 1)
    /\ \A k \in a..(b - 1) : ~BlankAt(t, k)

\* The part from a to b of comment group d begins with the marker.
MarkedPart(d, a, b) ==
    /\ ~docs[d].nil
    /\ a + 1 <= b
    /\ IsPart(docs[d].text, a, b)
    /\ docs[d].text[a] = "Deprecated:"
    /\ docs[d].text[a + 1] = SP

Spans ==
    UNION {{<<d, a, b>> : a \in 1..Len(docs[d].text), b \in 1..Len(docs[d].text)}
              : d \in 1..Len(docs)}

FirstMarked(w) ==
    /\ MarkedPart(w[1], w[2], w[3])
    /\ \A v \in Spans :
           MarkedPart(v[1], v[2], v[3]) => (w[1] < v[1] \/ (w[1] = v[1] /\ w[2] <= v[2]))

\* C6 (doc-marker extraction): after doDocs, the message is the text after
\* the marker of the first part (in the order of the groups, then of the
\* parts) that begins with "Deprecated: ", its newlines replaced by spaces,
\* and every name has a fact with it; when no part begins with the marker
\* there is no message and no fact.
MarkerExtraction ==
    pc = "done" =>
        IF \A w \in Spans : ~MarkedPart(w[1], w[2], w[3])
        THEN alt = <<>> /\ DOMAIN facts.Objects = {}
        ELSE \E w \in Spans :
                 /\ FirstMarked(w)
                 /\ Len(alt) = w[3] - w[2] - 1
                 /\ \A k \in 1..Len(alt) :
                        alt[k] = IF docs[w[1]].text[w[2] + 1 + k] = NL THEN SP
                                 ELSE docs[w[1]].text[w[2] + 1 + k]
                 /\ DOMAIN facts.Objects = {TheName}
                 /\ facts.Objects[TheName] = alt

\* Reached: a first group with the marker in the middle of its line, then a
\* group whose only part begins with the marker and runs over two lines.
MarkerExtractionWitness ==
    /\ pc = "done"
    /\ Len(docs) = 2
    /\ docs[1] = Doc(Join(<<<<"x", SP, "Deprecated:", SP, "z">>>>))
    /\ docs[2] = Doc(Join(<<<<"Deprecated:", SP, "y">>, WordLine>>))
    /\ alt = <<"y", SP, "x", SP>>
    /\ facts.Objects = [o \in {TheName} |-> <<"y", SP, "x", SP>>]

-----------------------------------------------------------------------------
(* The declarations of a unit, as ast.Inspect presents them to the fact    *)
(* extractor.                                                              *)

\* A unit is a list of items: the start of a file, a function declaration,
\* the start of a type, var or import declaration (grouped or not), a spec
\* of the declaration begun last, a field or a method of the type spec
\* begun last.  A final D marks an item whose doc comment has the marker.
FileItems == {"file", "fileD"}
GroupItems == {"type", "typeD", "var", "varD", "import"}
SpecItems == {"spec", "specD"}
FieldItems == {"field", "fieldD"}
MethodItems == {"method", "methodD"}
FactItems ==
    FileItems \cup {"func", "funcD"} \cup GroupItems \cup SpecItems
        \cup FieldItems \cup MethodItems

\* Position of the declaration that holds item k (0 if none).
GroupOf(items, k) ==
    IF \E j \in 1..(k - 1) : items[j] \in GroupItems
    THEN CHOOSE j \in 1..(k - 1) :
             items[j] \in GroupItems /\ \A m \in (j + 1)..(k - 1) : items[m] \notin GroupItems
    ELSE 0

\* The items form a unit: specs follow their declaration, fields and
\* methods follow a type spec, and a type has fields or methods, not both.
WellFormed(items) ==
    /\ items[1] \in FileItems
    /\ \A k \in 2..Len(items) :
           /\ items[k] \in SpecItems =>
                  /\ items[k - 1] \in {"type", "typeD", "var", "varD"}
                                          \cup SpecItems \cup FieldItems \cup MethodItems
           /\ items[k] \in FieldItems =>
                  /\ items[k - 1] \in SpecItems \cup FieldItems
                  /\ items[GroupOf(items, k)] \in {"type", "typeD"}
           /\ items[k] \in MethodItems =>
                  /\ items[k - 1] \in SpecItems \cup MethodItems
                  /\ items[GroupOf(items, k)] \in {"type", "typeD"}

Units ==
    UNION {{u \in {<<f>> \o r : f \in FileItems, r \in [1..n -> FactItems]} : WellFormed(u)}
              : n \in 0..MaxItems}

\* The doc comment of item k: with the marker, "Deprecated: <k>"; without,
\* a line of text for functions and specs and none for the rest.
DocOf(items, k) ==
    IF items[k] \in {"fileD", "funcD", "typeD", "varD", "specD", "fieldD", "methodD"}
    THEN Doc(Join(<<Marker \o <<Itoa(k)>>>>))
    ELSE IF items[k] \in {"func", "spec"} THEN Doc(Join(<<WordLine>>))
    ELSE NilDoc

Name(k, j) == Obj(<<k, j>>, PkgA)

\* A node of the declaration syntax.  gdoc is the doc comment of the
\* declaration that holds a spec; fields are the fields or methods of a
\* struct or interface type (and of its type spec).
DeclNode(t, id, tok, d, ns, fs, g) ==
    [type |-> t, id |-> id, tok |-> tok, doc |-> d, names |-> ns, fields |-> fs, gdoc |-> g]

Plain(t, id) == DeclNode(t, id, "", NilDoc, <<>>, <<>>, NilDoc)

\* The doc comment of a node is its first child.
DocLeaf(d, id) == IF d.nil THEN <<>> ELSE Leaves(<<Plain("CommentGroup", id)>>)

\* Last of the items k+1.. that are in S, from k on (k if none).
RECURSIVE RunEnd(_, _, _)
RunEnd(items, k, S) ==
    IF k + 1 <= Len(items) /\ items[k + 1] \in S THEN RunEnd(items, k + 1, S) ELSE k

\* The fields (two names each) or methods (one name each) at items a..b.
FieldsOf(items, a, b) ==
    [m \in 1..(b - a + 1) |->
        [names |-> IF items[a + m - 1] \in FieldItems
                   THEN <<Name(a + m - 1, 1), Name(a + m - 1, 2)>>
                   ELSE <<Name(a + m - 1, 1)>>,
         doc |-> DocOf(items, a + m - 1)]]

\* The events of the spec at item k of the declaration at item g, whose
\* fields or methods end at item e.
SpecEvents(items, g, k, e) ==
    IF items[g] \in {"var", "varD"}
    THEN LET n == DeclNode("ValueSpec", <<k, 0>>, "", DocOf(items, k),
                           <<Name(k, 1), Name(k, 2)>>, <<>>, DocOf(items, g))
         IN  <<Ev(TRUE, n)>> \o DocLeaf(n.doc, <<k, 1>>)
             \o Leaves(<<Plain("Ident", <<k, 2>>), Plain("Ident", <<k, 3>>)>>)
             \o <<Ev(FALSE, n)>>
    ELSE LET fs == FieldsOf(items, k + 1, e)
             n == DeclNode("TypeSpec", <<k, 0>>, "", DocOf(items, k),
                           <<Name(k, 1)>>, fs, DocOf(items, g))
             ty == IF e = k THEN Plain("Ident", <<k, 3>>)
                   ELSE DeclNode(IF items[k + 1] \in FieldItems THEN "StructType"
                                 ELSE "InterfaceType",
                                 <<k, 3>>, "", NilDoc, <<>>, fs, NilDoc)
         IN  <<Ev(TRUE, n)>> \o DocLeaf(n.doc, <<k, 1>>)
             \o Leaves(<<Plain("Ident", <<k, 2>>)>>)
             \o <<Ev(TRUE, ty)>>
             \o (IF e = k THEN <<>> ELSE Leaves(<<Plain("FieldList", <<k, 4>>)>>))
             \o <<Ev(FALSE, ty)>>
             \o <<Ev(FALSE, n)>>

\* The events of the specs at items k..e of the declaration at item g.
RECURSIVE SpecsEvents(_, _, _, _)
SpecsEvents(items, g, k, e) ==
    IF k > e THEN <<>>
    ELSE LET fe == RunEnd(items, k, FieldItems \cup MethodItems)
         IN  SpecEvents(items, g, k, fe) \o SpecsEvents(items, g, fe + 1, e)

\* The events of the declarations from item k to the end of the file.
RECURSIVE DeclsEvents(_, _)
DeclsEvents(items, k) ==
    IF k > Len(items) \/ items[k] \in FileItems THEN <<>>
    ELSE IF items[k] \in {"func", "funcD"}
    THEN LET n == DeclNode("FuncDecl", <<k, 0>>, "", DocOf(items, k),
                           <<Name(k, 1)>>, <<>>, NilDoc)
         IN  <<Ev(TRUE, n)>> \o DocLeaf(n.doc, <<k, 1>>)
             \o Leaves(<<Plain("Ident", <<k, 2>>), Plain("BlockStmt", <<k, 3>>)>>)
             \o <<Ev(FALSE, n)>> \o DeclsEvents(items, k + 1)
    ELSE LET e == RunEnd(items, k, SpecItems \cup FieldItems \cup MethodItems)
             tok == CASE items[k] \in {"type", "typeD"} -> "TYPE"
                      [] items[k] \in {"var", "varD"} -> "VAR"
                      [] OTHER -> "IMPORT"
             n == DeclNode("GenDecl", <<k, 0>>, tok, DocOf(items, k), <<>>, <<>>, NilDoc)
         IN  <<Ev(TRUE, n)>> \o DocLeaf(n.doc, <<k, 1>>)
             \o (IF tok = "IMPORT" THEN Leaves(<<Plain("ImportSpec", <<k, 2>>)>>)
                 ELSE SpecsEvents(items, k, k + 1, e))
             \o <<Ev(FALSE, n)>> \o DeclsEvents(items, e + 1)

\* The events of the files from item k on.
RECURSIVE FilesEvents(_, _)
FilesEvents(items, k) ==
    IF k > Len(items) THEN <<>>
    ELSE IF items[k] \notin FileItems THEN FilesEvents(items, k + 1)
    ELSE LET n == DeclNode("File", <<k, 0>>, "", DocOf(items, k), <<>>, <<>>, NilDoc)
         IN  <<Ev(TRUE, n)>> \o DocLeaf(n.doc, <<k, 1>>)
             \o Leaves(<<Plain("Ident", <<k, 2>>)>>)
             \o DeclsEvents(items, k + 1)
             \o <<Ev(FALSE, n)>> \o FilesEvents(items, k + 1)

-----------------------------------------------------------------------------
(* facts.deprecated as a state machine. *)

\* Index of the pop event of the node pushed at event k.
Match(k) ==
    CHOOSE m \in (k + 1)..Len(events) :
        ~events[m].push /\ events[m].node.id = events[k].node.id

\* f.Doc of every file, in order.
FileDocs ==
    LET ks == {k \in 1..Len(events) : events[k].push /\ events[k].node.type = "File"}
        nth[n \in 0..Cardinality(ks)] ==
            IF n = 0 THEN 0
            ELSE CHOOSE k \in ks : k > nth[n - 1] /\ \A m \in ks : m > nth[n - 1] => k <= m
    IN  [n \in 1..Cardinality(ks) |-> events[nth[n]].node.doc]

\* The loop of a struct or interface type: doDocs for every field with the
\* field's own doc comment.
RECURSIVE fieldFacts(_, _)
fieldFacts(m, fs) ==
    IF fs = <<>> THEN m
    ELSE fieldFacts(doDocs(m, Head(fs).names, <<Head(fs).doc>>), Tail(fs))

\* The facts after the case of a struct or interface type.
structFacts(m, node, ds) == fieldFacts(m, node.fields)

\* The callback of ast.Inspect for a node, in the state (docs, names, facts):
\* the state after it and its return value.
inspectNode(node, ds, ns, m) ==
    LET stay(r) == [docs |-> ds, names |-> ns, facts |-> m, ret |-> r]
        decl(r) ==
            LET ds1 == Append(ds, node.doc)
                ns1 == node.names
            IN  IF Len(ns1) = 0 \/ Len(ds1) = 0
                THEN [docs |-> ds1, names |-> ns1, facts |-> m, ret |-> r]
                ELSE [docs |-> <<>>, names |-> <<>>, facts |-> doDocs(m, ns1, ds1), ret |-> r]
    IN  CASE node.type = "GenDecl" ->
                 IF node.tok \in {"TYPE", "CONST", "VAR"}
                 THEN [docs |-> Append(ds, node.doc), names |-> ns, facts |-> m, ret |-> TRUE]
                 ELSE stay(FALSE)
          [] node.type = "FuncDecl" -> decl(FALSE)
          [] node.type = "TypeSpec" -> decl(TRUE)
          [] node.type = "ValueSpec" -> decl(FALSE)
          [] node.type = "File" -> stay(TRUE)
          [] node.type \in {"StructType", "InterfaceType"} ->
                 [docs |-> ds, names |-> ns, facts |-> structFacts(m, node, ds), ret |-> FALSE]
          [] OTHER -> stay(FALSE)

walkVars == <<goVersion, StdlibDeprecations, passPkg, generated, stack, tfn, diags, alt>>

\* Lines 66-74: the package fact from the doc comments of the files, then
\* docs = docs[:0].
PackageDoc ==
    /\ pc = "package"
    /\ LET a == extractDeprecatedMessage(FileDocs)
       IN  facts' = IF a = <<>> THEN facts
                    ELSE [facts EXCEPT !.Packages = [q \in {passPkg} |-> a]]
    /\ docs' = <<>>
    /\ pc' = "inspect"
    /\ UNCHANGED <<walkVars, events, deprs, i, names, result>>

\* fn(node) for a node: the callback, then into the children or past them.
Inspect ==
    /\ pc = "inspect"
    /\ i <= Len(events)
    /\ events[i].push
    /\ LET r == inspectNode(events[i].node, docs, names, facts.Objects)
       IN  /\ docs' = r.docs
           /\ names' = r.names
           /\ facts' = [facts EXCEPT !.Objects = r.facts]
           /\ i' = IF r.ret THEN i + 1 ELSE Match(i) + 1
    /\ UNCHANGED <<walkVars, events, deprs, pc, result>>

\* fn(nil) after the children of a node: nothing changes.
Leave ==
    /\ pc = "inspect"
    /\ i <= Len(events)
    /\ ~events[i].push
    /\ i' = i + 1
    /\ UNCHANGED <<walkVars, events, deprs, pc, result, docs, names, facts>>

\* Lines 129-141: the result holds every exported fact.
Publish ==
    /\ pc = "inspect"
    /\ i > Len(events)
    /\ deprs' = facts
    /\ result' = "ok"
    /\ pc' = "done"
    /\ UNCHANGED <<walkVars, events, i, docs, names, facts>>

InitFacts ==
    /\ pc = "package"
    /\ \E u \in Units : events = FilesEvents(u, 1)
    /\ i = 1
    /\ docs = <<>>
    /\ names = <<>>
    /\ facts = [Objects |-> <<>>, Packages |-> <<>>]
    /\ deprs = [Objects |-> <<>>, Packages |-> <<>>]
    /\ alt = <<>>
    /\ goVersion = 0
    /\ StdlibDeprecations = <<>>
    /\ passPkg = PkgA
    /\ generated = <<>>
    /\ stack = 0
    /\ tfn = NoObj
    /\ diags = <<>>
    /\ result = "running"

NextFacts == PackageDoc \/ Inspect \/ Leave \/ Publish

SpecFacts == InitFacts /\ [][NextFacts]_vars

-----------------------------------------------------------------------------
(* Properties of facts.deprecated. *)

\* A doc comment carries the marker (the doc comments of the units are one
\* paragraph long).
Marked(d) ==
    /\ ~d.nil
    /\ Len(d.text) >= 2
    /\ d.text[1] = "Deprecated:"
    /\ d.text[2] = SP

\* The declarations the extractor processes: function declarations, type
\* specs and value specs of every file.
Declarations ==
    {events[k].node : k \in {m \in 1..Len(events) :
        events[m].push /\ events[m].node.type \in {"FuncDecl", "TypeSpec", "ValueSpec"}}}

\* The struct and interface type declarations.
TypeDeclarations == {n \in Declarations : n.type = "TypeSpec" /\ n.fields # <<>>}

\* The message of a doc comment with the marker.
MessageOf(d) == [k \in 1..(Len(d.text) - 2) |->
                    IF d.text[k + 2] = NL THEN SP ELSE d.text[k + 2]]

\* C10 (doc comments consulted per declaration): in the published result,
\* every name of a function declaration, type spec or value spec has a fact
\* exactly when the declaration's own doc comment or the doc comment of the
\* declaration group that holds it carries the marker, and the message of
\* the fact is the message of one of these two.
DocsPerDeclaration ==
    pc = "done" =>
        \A n \in Declarations :
            \A j \in 1..Len(n.names) :
                /\ n.names[j] \in DOMAIN deprs.Objects <=> (Marked(n.doc) \/ Marked(n.gdoc))
                /\ n.names[j] \in DOMAIN deprs.Objects =>
                       \/ Marked(n.doc) /\ deprs.Objects[n.names[j]] = MessageOf(n.doc)
                       \/ Marked(n.gdoc) /\ deprs.Objects[n.names[j]] = MessageOf(n.gdoc)

\* C7 (field isolation): in the published result, for every struct or
\* interface type declaration, a field or method has a fact exactly when its
\* own doc comment carries the marker, and the type has a fact exactly when
\* the doc comments of its declaration (the spec's and the group's) carry it.
FieldIsolation ==
    pc = "done" =>
        \A n \in TypeDeclarations :
            /\ \A f \in 1..Len(n.fields) :
                   \A j \in 1..Len(n.fields[f].names) :
                       /\ n.fields[f].names[j] \in DOMAIN deprs.Objects
                              <=> Marked(n.fields[f].doc)
                       /\ Marked(n.fields[f].doc) =>
                              deprs.Objects[n.fields[f].names[j]] = MessageOf(n.fields[f].doc)
            /\ n.names[1] \in DOMAIN deprs.Objects <=> (Marked(n.doc) \/ Marked(n.gdoc))

\* The part of C7 about fields alone.
FieldFactsOwnDoc ==
    pc = "done" =>
        \A n \in TypeDeclarations :
            \A f \in 1..Len(n.fields) :
                \A j \in 1..Len(n.fields[f].names) :
                    /\ n.fields[f].names[j] \in DOMAIN deprs.Objects <=> Marked(n.fields[f].doc)
                    /\ Marked(n.fields[f].doc) =>
                           deprs.Objects[n.fields[f].names[j]] = MessageOf(n.fields[f].doc)

====
